---- MODULE Spec2Model ----
(***************************************************************************)
(* The personal-finance dashboard: the spending tracker's callbacks, its   *)
(* two SQLite tables and the trend resampler behind the two charts.        *)
(*                                                                         *)
(* Two specifications share the module.  TrendSpec drives the two pure     *)
(* routines (prepare_trend_data, update_trend_graph) over bounded record   *)
(* sets.  Spec is the application: the browser's properties that the       *)
(* callbacks read, the database, and one action per callback.              *)
(*                                                                         *)
(* Python values.  A str is a sequence of one-character strings, so that   *)
(* str.isalnum and the `in` substring test are computed.  An Optional      *)
(* value is None (the empty tuple) or Some(v) (a one-element tuple).       *)
(***************************************************************************)
EXTENDS Integers, Sequences, FiniteSets, TLC

None == <<>>
Some(v) == <<v>>
IsNone(o) == o = None
Val(o) == o[1]

\* ------------------------------------------------------------------------
\* Bounds of the model
\* ------------------------------------------------------------------------

\* longest record set handed to the resampler in TrendSpec
MaxFrame == 3
\* longest list of selected categories handed to a chart callback
MaxSelected == 2
\* most calls of prepare_trend_data on one DataFrame object in TrendSpec
MaxCalls == 2
\* most rows of the spending table in Spec
MaxRecords == 2
\* most rows of the categories table in Spec
MaxCategories == 1

\* ------------------------------------------------------------------------
\* Calendar arithmetic of pandas' datetime64 values.  A datetime64 value is
\* a day ordinal (days since Monday 2024-01-01) and the second of the day;
\* a str timestamp is the text 'YYYY-MM-DD HH:MM:SS', kept as its fields.
\* ------------------------------------------------------------------------

IsLeap(y) == (y % 4 = 0 /\ y % 100 # 0) \/ y % 400 = 0

DaysInMonth(y, m) ==
    IF m = 2 THEN (IF IsLeap(y) THEN 29 ELSE 28)
    ELSE IF m \in {4, 6, 9, 11} THEN 30 ELSE 31

DaysInYear(y) == IF IsLeap(y) THEN 366 ELSE 365

RECURSIVE DaysBeforeMonth(_, _)
DaysBeforeMonth(y, m) ==
    IF m <= 1 THEN 0 ELSE DaysBeforeMonth(y, m - 1) + DaysInMonth(y, m - 1)

RECURSIVE DaysBeforeYear(_)
DaysBeforeYear(y) ==
    IF y <= 2024 THEN 0 ELSE DaysBeforeYear(y - 1) + DaysInYear(y - 1)

ToOrdinal(y, m, d) == DaysBeforeYear(y) + DaysBeforeMonth(y, m) + (d - 1)

RECURSIVE YearFrom(_, _)
YearFrom(y, ord) ==
    IF ord < DaysBeforeYear(y + 1) THEN y ELSE YearFrom(y + 1, ord)

YearOf(ord) == YearFrom(2024, ord)

RECURSIVE MonthFrom(_, _, _)
MonthFrom(y, m, dayOfYear) ==
    IF dayOfYear < DaysBeforeMonth(y, m + 1) THEN m
    ELSE MonthFrom(y, m + 1, dayOfYear)

MonthOf(ord) == MonthFrom(YearOf(ord), 1, ord - DaysBeforeYear(YearOf(ord)))

DayOf(ord) ==
    ord - DaysBeforeYear(YearOf(ord))
        - DaysBeforeMonth(YearOf(ord), MonthOf(ord)) + 1

\* The days the model's timestamps and period labels lie in: 2024 and 2025.
Days == 0..(DaysInYear(2024) + DaysInYear(2025) - 1)

\* The calendar date of every day, and the last day of its month.
Calendar == [ord \in Days |-> [y |-> YearOf(ord), m |-> MonthOf(ord), d |-> DayOf(ord)]]

MonthEndOf ==
    [ord \in Days |->
        DaysBeforeYear(YearOf(ord)) + DaysBeforeMonth(YearOf(ord), MonthOf(ord))
            + DaysInMonth(YearOf(ord), MonthOf(ord)) - 1]

\* A faulty conversion, to try the properties against: a value that is a
\* datetime64 already is not kept, it moves on by a day.
ToDatetimeAnew(ts) ==
    IF ts.type = "str"
    THEN [type |-> "datetime64", ord |-> ToOrdinal(ts.y, ts.m, ts.d), sec |-> ts.sec]
    ELSE [ts EXCEPT !.ord = @ + 1]

\* pd.to_datetime on one cell: text is parsed, a datetime64 is kept.
ToDatetime(ts) ==
    IF ts.type = "str"
    THEN [type |-> "datetime64", ord |-> ToOrdinal(ts.y, ts.m, ts.d), sec |-> ts.sec]
    ELSE ts

\* The text of a datetime64 value (sqlite3's datetime adapter, the JSON
\* encoding of a Timestamp on its way to dcc.Store).
ToText(ts) ==
    IF ts.type = "datetime64"
    THEN [type |-> "str", y |-> Calendar[ts.ord].y, m |-> Calendar[ts.ord].m,
          d |-> Calendar[ts.ord].d, sec |-> ts.sec]
    ELSE ts

\* Offsets 'M' (month end) and 'W' (week ending Sunday): the last day of
\* the period that holds the day.  Day 0 is a Monday.
WeekEnd(ord) == ord + (6 - (ord % 7))

PeriodEnd(ord, freq) == IF freq = "M" THEN MonthEndOf[ord] ELSE WeekEnd(ord)

\* The bin a timestamp falls in under resample(freq): bins are closed and
\* labelled on the right, and the right edge is the end of that day.
BinLabel(ts, freq) ==
    [type |-> "datetime64", ord |-> PeriodEnd(ts.ord, freq), sec |-> 0]

\* The value one offset after a label.
NextLabel(label, freq) ==
    [type |-> "datetime64", ord |-> PeriodEnd(label.ord + 1, freq), sec |-> 0]

TsBefore(a, b) == a.ord < b.ord \/ (a.ord = b.ord /\ a.sec < b.sec)

\* ------------------------------------------------------------------------
\* DataFrames: the column names and the rows.  pd.DataFrame of an empty
\* list has no columns at all.
\* ------------------------------------------------------------------------

RecordColumns == {"amount", "category", "timestamp"}

DataFrame(records) ==
    [columns |-> IF records = <<>> THEN {} ELSE RecordColumns, rows |-> records]

RECURSIVE SumAmount(_)
SumAmount(rows) ==
    IF rows = <<>> THEN 0 ELSE Head(rows).amount + SumAmount(Tail(rows))

RECURSIVE MapToDatetime(_)
MapToDatetime(rows) ==
    IF rows = <<>> THEN <<>>
    ELSE <<[Head(rows) EXCEPT !.timestamp = ToDatetime(@)]>> \o MapToDatetime(Tail(rows))

\* A faulty filter, to try the properties against: it keeps every row.
FilterNothing(rows, selected_category) == rows

\* spending_data[spending_data['category'] == selected_category]
FilterCategory(rows, selected_category) ==
    SelectSeq(rows, LAMBDA r : r.category = selected_category)

\* Series.min() / Series.max() of a timestamp column: None stands for NaT.
Earlier(ts, rest) == IF IsNone(rest) \/ TsBefore(ts, Val(rest)) THEN Some(ts) ELSE rest

Later(ts, rest) == IF IsNone(rest) \/ TsBefore(Val(rest), ts) THEN Some(ts) ELSE rest

RECURSIVE MinTimestamp(_)
MinTimestamp(rows) ==
    IF rows = <<>> THEN None
    ELSE Earlier(Head(rows).timestamp, MinTimestamp(Tail(rows)))

RECURSIVE MaxTimestamp(_)
MaxTimestamp(rows) ==
    IF rows = <<>> THEN None
    ELSE Later(Head(rows).timestamp, MaxTimestamp(Tail(rows)))

\* A faulty range, to try the properties against: it leaves out its end.
RECURSIVE DateRangeOpen(_, _, _)
DateRangeOpen(start, end, freq) ==
    IF ~TsBefore(start, end) THEN <<>>
    ELSE <<start>> \o DateRangeOpen(NextLabel(start, freq), end, freq)

\* pd.date_range(start, end, freq) for start on the offset.
RECURSIVE DateRange(_, _, _)
DateRange(start, end, freq) ==
    IF TsBefore(end, start) THEN <<>>
    ELSE <<start>> \o DateRange(NextLabel(start, freq), end, freq)

\* The rows whose timestamp is t.
RowsAt(rows, t) == SelectSeq(rows, LAMBDA r : r.timestamp = t)

\* Every record under the label of its bin.
Labelled(rows, freq) ==
    [i \in 1..Len(rows) |->
        [timestamp |-> BinLabel(rows[i].timestamp, freq), amount |-> rows[i].amount]]

\* One row per bin, the sum of an empty bin being 0.
SumBins(labelled, bins) ==
    [i \in 1..Len(bins) |->
        [timestamp |-> bins[i], amount |-> SumAmount(RowsAt(labelled, bins[i]))]]

\* The bins run from the first record's bin to the last record's bin.
BinsOf(labelled, freq) ==
    DateRange(Val(MinTimestamp(labelled)), Val(MaxTimestamp(labelled)), freq)

\* filtered.set_index('timestamp').resample(freq).sum().reset_index():
\* no row at all for no record.  (The category column is summed or
\* dropped with it; line 175 overwrites it.)
Resample(rows, freq) ==
    IF rows = <<>> THEN <<>>
    ELSE SumBins(Labelled(rows, freq), BinsOf(Labelled(rows, freq), freq))

\* One timestamp of the left side against its matches on the right: once
\* per match, NaN (None) for none.
MergeRow(t, hits) ==
    IF hits = <<>>
    THEN <<[timestamp |-> t, amount |-> None]>>
    ELSE [i \in 1..Len(hits) |-> [timestamp |-> t, amount |-> Some(hits[i].amount)]]

\* pd.merge(full_range, resampled_data, on='timestamp', how='left')
RECURSIVE MergeLeft(_, _)
MergeLeft(full_range, resampled) ==
    IF full_range = <<>> THEN <<>>
    ELSE MergeRow(Head(full_range), RowsAt(resampled, Head(full_range)))
         \o MergeLeft(Tail(full_range), resampled)

\* merged_data['amount'].fillna(0) and merged_data['category'] = ...
FillAndTag(merged, selected_category) ==
    [i \in 1..Len(merged) |->
        [timestamp |-> merged[i].timestamp,
         amount |-> IF IsNone(merged[i].amount) THEN 0 ELSE Val(merged[i].amount),
         category |-> selected_category]]

\* What a call leaves behind: the exception that escaped ("" for none),
\* the frame returned, and the caller's DataFrame object after the call.
Returned(data, spending_data) == [raised |-> "", data |-> data, frame |-> spending_data]
Raised(exc, spending_data) == [raised |-> exc, data |-> <<>>, frame |-> spending_data]

\* Lines 168-177: the full range between the first and the last period of
\* resampled_data, merged with it.  date_range refuses NaT.
FillRange(resampled_data, start, end, selected_category, freq, spending_data) ==
    IF IsNone(start) \/ IsNone(end)
    THEN Raised("ValueError", spending_data)
    ELSE Returned(
            FillAndTag(MergeLeft(DateRange(Val(start), Val(end), freq), resampled_data),
                       selected_category),
            spending_data)

\* Line 169: the first and the last period of resampled_data.
FillResampled(resampled_data, selected_category, freq, spending_data) ==
    FillRange(resampled_data, MinTimestamp(resampled_data), MaxTimestamp(resampled_data),
              selected_category, freq, spending_data)

\* Lines 161-177, on the DataFrame whose timestamp column is converted.
FilterAndResample(spending_data, selected_category, freq) ==
    FillResampled(Resample(FilterCategory(spending_data.rows, selected_category), freq),
                  selected_category, freq, spending_data)

\* Line 159 assigns the converted column to the caller's DataFrame.
prepare_trend_data(spending_data, selected_category, freq) ==
    IF "timestamp" \notin spending_data.columns
    THEN Raised("KeyError", spending_data)
    ELSE FilterAndResample([spending_data EXCEPT !.rows = MapToDatetime(@)],
                           selected_category, freq)

\* ------------------------------------------------------------------------
\* The chart builder
\* ------------------------------------------------------------------------

Frequencies == {"M", "W"}

\* go.Figure(): no trace, no layout.
EmptyFigure == [data |-> <<>>, title |-> "", xaxis_title |-> "", yaxis_title |-> ""]

\* go.Scatter(x=prepared_data['timestamp'], y=prepared_data['amount'], ...)
Scatter(prepared_data, category) ==
    [name |-> category, mode |-> "lines",
     x |-> [i \in 1..Len(prepared_data) |-> prepared_data[i].timestamp],
     y |-> [i \in 1..Len(prepared_data) |-> prepared_data[i].amount]]

\* pd.DataFrame(stored_data); pd.DataFrame(None) is the empty DataFrame.
FrameOf(stored_data) ==
    IF IsNone(stored_data) THEN DataFrame(<<>>) ELSE DataFrame(Val(stored_data))

\* `not selected_categories`: None and the empty list are both falsy.
Falsy(optional_sequence) == IsNone(optional_sequence) \/ Val(optional_sequence) = <<>>

\* A faulty guard, to try the properties against: `and` for `or`.
NothingToPlotAtAll(selected_categories, stored_data) ==
    IsNone(stored_data) /\ Falsy(selected_categories)

\* Line 197: stored_data is None or not selected_categories
NothingToPlot(selected_categories, stored_data) ==
    IsNone(stored_data) \/ Falsy(selected_categories)

\* The loop over the selected categories: every iteration is handed the
\* same DataFrame object, as the previous iterations left it.
RECURSIVE AddTraces(_, _, _, _)
RECURSIVE AddTrace(_, _, _, _)

\* One iteration, given what prepare_trend_data left behind.
AddTrace(prepared, selected, freq, traces) ==
    IF prepared.raised # ""
    THEN [raised |-> prepared.raised, traces |-> traces]
    ELSE AddTraces(Tail(selected), prepared.frame, freq,
                   Append(traces, Scatter(prepared.data, Head(selected))))

AddTraces(selected, spending_data, freq, traces) ==
    IF selected = <<>> THEN [raised |-> "", traces |-> traces]
    ELSE AddTrace(prepare_trend_data(spending_data, Head(selected), freq),
                  selected, freq, traces)

\* fig.update_layout(...) and the return, when the loop ran to its end.
Figure(loop, freq) ==
    IF loop.raised # ""
    THEN [raised |-> loop.raised, figure |-> EmptyFigure]
    ELSE [raised |-> "",
          figure |-> [data |-> loop.traces,
                      title |-> IF freq = "M" THEN "Monthly Trends" ELSE "Weekly Trends",
                      xaxis_title |-> IF freq = "M" THEN "Month" ELSE "Week",
                      yaxis_title |-> "Amount"]]

update_trend_graph(selected_categories, stored_data, freq) ==
    IF NothingToPlot(selected_categories, stored_data)
    THEN [raised |-> "", figure |-> EmptyFigure]
    ELSE Figure(AddTraces(IF IsNone(selected_categories) THEN <<>>
                          ELSE Val(selected_categories),
                          FrameOf(stored_data), freq, <<>>),
                freq)

\* All lists of at most n entries drawn from a set.
RECURSIVE ListsUpTo(_, _)
ListsUpTo(S, n) ==
    IF n = 0 THEN {<<>>}
    ELSE {<<>>} \cup {<<e>> \o l : e \in S, l \in ListsUpTo(S, n - 1)}

\* What a multi-select dropdown can hold: nothing yet (None), or a list.
Selections(options) == {None} \cup {Some(l) : l \in ListsUpTo(options, MaxSelected)}

\* ------------------------------------------------------------------------
\* The database (two tables) and its access functions.  An operation on
\* the database can fail: `fault` says which step of a callback does.
\* ------------------------------------------------------------------------

\* SELECT category_name FROM categories
get_categories(categories) == categories

\* INSERT INTO categories (category_name) VALUES (?)
add_category_to_db(categories, category_name) == Append(categories, category_name)

\* A faulty insert, to try the properties against: it writes over the last
\* row of a table that has one.
InsertSpendingOver(spending, amount, category, spending_datetime) ==
    SubSeq(spending, 1, Len(spending) - 1)
    \o <<[id |-> Len(spending) + 1, amount |-> amount,
          category |-> category, timestamp |-> ToText(spending_datetime)]>>

\* INSERT INTO spending (amount, category, timestamp) VALUES (?, ?, ?):
\* the id is the next rowid, the datetime is stored as its text.
InsertSpending(spending, amount, category, spending_datetime) ==
    Append(spending, [id |-> Len(spending) + 1, amount |-> amount,
                      category |-> category, timestamp |-> ToText(spending_datetime)])

\* read_sql_query('SELECT * FROM spending', index_col='id',
\* parse_dates='timestamp'): the id becomes the index, the text a datetime64.
read_spending_data(spending) ==
    [index |-> [i \in 1..Len(spending) |-> spending[i].id],
     columns |-> RecordColumns,
     rows |-> [i \in 1..Len(spending) |->
                 [amount |-> spending[i].amount, category |-> spending[i].category,
                  timestamp |-> ToDatetime(spending[i].timestamp)]]]

\* DataFrame.to_dict('records') as it reaches dcc.Store: one dict per row,
\* without the index, every Timestamp as its JSON text.
ToStoreRecords(spending_data) ==
    [i \in 1..Len(spending_data.rows) |->
        [spending_data.rows[i] EXCEPT !.timestamp = ToText(@)]]

\* ------------------------------------------------------------------------
\* Strings
\* ------------------------------------------------------------------------

AlnumChars ==
    {"a", "b", "c", "d", "e", "f", "g", "h", "i", "j", "k", "l", "m", "n", "o",
     "p", "q", "r", "s", "t", "u", "v", "w", "x", "y", "z",
     "A", "B", "C", "D", "E", "F", "G", "H", "I", "J", "K", "L", "M", "N", "O",
     "P", "Q", "R", "S", "T", "U", "V", "W", "X", "Y", "Z",
     "0", "1", "2", "3", "4", "5", "6", "7", "8", "9"}

\* A faulty test, to try the properties against: it looks at the first
\* character only.
isalnumFirst(s) == s # <<>> /\ s[1] \in AlnumChars

\* str.isalnum(): at least one character, and every one a letter or digit.
isalnum(s) == s # <<>> /\ \A i \in 1..Len(s) : s[i] \in AlnumChars

\* needle in haystack, for two str.
Contains(haystack, needle) ==
    \E i \in 0..(Len(haystack) - Len(needle)) :
        SubSeq(haystack, i + 1, i + Len(needle)) = needle

ADD_NEW == <<"A", "D", "D", "_", "N", "E", "W">>

\* ------------------------------------------------------------------------
\* What a callback hands back to the page
\* ------------------------------------------------------------------------

\* dbc.Alert(message, color=...), None, and dash.no_update.  `about` holds
\* the values formatted into the message.
Alert(message, about, color) ==
    [kind |-> "Alert", color |-> color, message |-> message, about |-> about]
NoAlert == [kind |-> "None", color |-> "", message |-> "", about |-> <<>>]
NoUpdate == [kind |-> "no_update", color |-> "", message |-> "", about |-> <<>>]

\* [{'label': cat, 'value': cat} for cat in updated_categories]
LabelValue(names) == [i \in 1..Len(names) |-> [label |-> names[i], value |-> names[i]]]

AddNewOption == [label |-> <<"A", "d", "d", " ", "n", "e", "w">>, value |-> ADD_NEW]

\* The values a user can pick from an option list.
Values(options) == {options[i].value : i \in 1..Len(options)}

\* ------------------------------------------------------------------------
\* The callbacks, as functions of their arguments and of the tables
\* ------------------------------------------------------------------------

\* A faulty toggle, to try the properties against: it returns whether the
\* sentinel is selected, closing the modal on any other value.
toggle_modal_closing(selected_value, is_open_now) ==
    ~Falsy(selected_value) /\ Contains(Val(selected_value), ADD_NEW)

toggle_modal(selected_value, is_open_now) ==
    IF ~Falsy(selected_value) /\ Contains(Val(selected_value), ADD_NEW)
    THEN TRUE
    ELSE is_open_now

\* A faulty guard, to try the properties against: `is None` for `not`.
NoNameAtAll(n_clicks, new_category) == IsNone(n_clicks) \/ IsNone(new_category)

\* Line 279: the name is refused without a message when absent or empty.
NoNameGiven(n_clicks, new_category) == IsNone(n_clicks) \/ Falsy(new_category)

\* Lines 286-292, the row being inserted: the option lists are read back.
CategoryAdded(new_category, fault, added) ==
    IF fault = "read"
    THEN [raised |-> "sqlite3.Error", dropdown |-> None, monthly |-> None,
          weekly |-> None, banner |-> NoUpdate, table |-> added]
    ELSE [raised |-> "",
          dropdown |-> Some(Append(LabelValue(get_categories(added)), AddNewOption)),
          monthly |-> Some(LabelValue(get_categories(added))),
          weekly |-> Some(LabelValue(get_categories(added))),
          banner |-> Alert("Category added successfully!", <<Val(new_category)>>, "success"),
          table |-> added]

\* Returns the exception that escaped ("" for none), the three option
\* lists (None for no_update), the alert, and the categories table.
update_category_dropdown(n_clicks, new_category, fault, table) ==
    IF NoNameGiven(n_clicks, new_category)
    THEN [raised |-> "", dropdown |-> None, monthly |-> None, weekly |-> None,
          banner |-> NoAlert, table |-> table]
    ELSE IF ~isalnum(Val(new_category))
    THEN [raised |-> "", dropdown |-> None, monthly |-> None, weekly |-> None,
          banner |-> Alert("Invalid category name.", <<>>, "warning"), table |-> table]
    ELSE IF fault \in {"connect", "execute"}
    THEN [raised |-> "sqlite3.Error", dropdown |-> None, monthly |-> None,
          weekly |-> None, banner |-> NoUpdate, table |-> table]
    ELSE CategoryAdded(new_category, fault,
                       add_category_to_db(table, Val(new_category)))

\* datetime.strptime(f"{spending_date} {current_time}", '%Y-%m-%d %H:%M:%S')
strptime(date, now) ==
    ToDatetime([type |-> "str", y |-> date.y, m |-> date.m, d |-> date.d, sec |-> now])

\* The banner for a click with no amount or no category.
MissingInputAlert ==
    Alert("Please enter a valid amount and select a category", <<>>, "danger")

\* Returns the exception that escaped, the alert, and the spending table.
\* `now` is the second of the day datetime.now() reads.
update_output(n_clicks, amount, category, spending_date, now, fault, table) ==
    IF IsNone(n_clicks)
    THEN [raised |-> "", banner |-> NoUpdate, table |-> table]
    ELSE IF IsNone(spending_date)
    THEN \* strptime('None HH:MM:SS', '%Y-%m-%d %H:%M:%S')
         [raised |-> "ValueError", banner |-> NoUpdate, table |-> table]
    ELSE IF Val(n_clicks) > 0
    THEN IF IsNone(amount) \/ IsNone(category)
         THEN [raised |-> "", banner |-> MissingInputAlert, table |-> table]
         ELSE IF fault = "connect"
         THEN \* the except clause returns, then finally closes a
              \* connection that was never bound
              [raised |-> "UnboundLocalError", banner |-> NoUpdate, table |-> table]
         ELSE IF fault = "execute"
         THEN [raised |-> "",
               banner |-> Alert("Database error", <<"sqlite3.Error">>, "danger"),
               table |-> table]
         ELSE [raised |-> "",
               banner |-> Alert("added successfully!", <<Val(category)>>, "success"),
               table |-> InsertSpending(table, Val(amount), Val(category),
                                        strptime(Val(spending_date), now))]
    ELSE [raised |-> "",
          banner |-> Alert("Enter amount and select a category", <<>>, "warning"),
          table |-> table]

\* Returns the exception that escaped and the data for dcc.Store (None for
\* no_update).
load_spending_data(path, fault, table) ==
    IF path = "/spending-tracker"
    THEN IF fault = "read"
         THEN [raised |-> "DatabaseError", data |-> None]
         ELSE [raised |-> "", data |-> Some(ToStoreRecords(read_spending_data(table)))]
    ELSE [raised |-> "", data |-> None]

\* The three styles, as whether the sidebar shows.
toggle_sidebar(n) ==
    IF ~IsNone(n) /\ Val(n) # 0 /\ Val(n) % 2 = 1 THEN "hidden" ELSE "shown"

\* ------------------------------------------------------------------------
\* State
\* ------------------------------------------------------------------------

\* TrendSpec: the inputs of the pure routines and what they returned.
\* Spec: the database, the properties of the page that callbacks read, and
\* the callback that ran last with what it handed back.
VARIABLES
    stored_in,              \* the stored_data argument: None or Some(list of records)
    frame,                  \* the DataFrame object handed to prepare_trend_data
    results,                \* one entry per call of prepare_trend_data on frame
    chart,                  \* None, or Some(what update_trend_graph returned)
    categories,             \* table categories: the names, in rowid order
    spending,               \* table spending: the rows, in rowid order
    pathname,               \* dcc.Location 'url'
    load_pending,           \* the change of pathname has not reached load_spending_data yet
    category_options,       \* options of 'category_dropdown'
    monthly_options,        \* options of 'monthly_trend_dropdown'
    weekly_options,         \* options of 'weekly_trend_dropdown'
    category_value,         \* value of 'category_dropdown'
    is_open,                \* is_open of 'modal_new_category'
    spending_data_store,    \* data of 'spending_data_store'
    sidebar_clicks,         \* n_clicks of 'sidebar-toggle'
    sidebar_style,          \* the styles toggle_sidebar returned last
    response                \* the callback that ran last, and what it handed back

trendVars == <<stored_in, frame, results, chart>>

dbVars == <<categories, spending>>

pageVars == <<pathname, load_pending, category_options, monthly_options,
              weekly_options, category_value, is_open, spending_data_store,
              sidebar_clicks, sidebar_style>>

appVars == <<categories, spending, pathname, load_pending, category_options,
             monthly_options, weekly_options, category_value, is_open,
             spending_data_store, sidebar_clicks, sidebar_style, response>>

vars == <<stored_in, frame, results, chart, categories, spending, pathname,
          load_pending, category_options, monthly_options, weekly_options,
          category_value, is_open, spending_data_store, sidebar_clicks,
          sidebar_style, response>>

\* input: what the callback was called with, for the callbacks whose
\* answer depends on it (the name typed, the fields of the form, the list
\* of selected categories); None for the others.
Response(callback, input, raised, banner, figure) ==
    [callback |-> callback, input |-> input, raised |-> raised,
     banner |-> banner, figure |-> figure]

\* The application as served, before any request: the tables as
\* database.main() creates them, the browser at the root path with the
\* sidebar as toggle_sidebar's initial call leaves it.
AppInit ==
    /\ categories = <<>>
    /\ spending = <<>>
    /\ pathname = "/"
    /\ load_pending = FALSE
    /\ category_options = <<>>
    /\ monthly_options = <<>>
    /\ weekly_options = <<>>
    /\ category_value = None
    /\ is_open = FALSE
    /\ spending_data_store = None
    /\ sidebar_clicks = None
    /\ sidebar_style = toggle_sidebar(None)
    /\ response = Response("toggle_sidebar", None, "", NoUpdate, EmptyFigure)

\* ------------------------------------------------------------------------
\* TrendSpec: the resampler and the chart builder on bounded inputs
\* ------------------------------------------------------------------------

Text(y, m, d, sec) == [type |-> "str", y |-> y, m |-> m, d |-> d, sec |-> sec]

food == <<"f", "o", "o", "d">>
Food == <<"F", "o", "o", "d">>
rent == <<"r", "e", "n", "t">>

\* The records the record sets are drawn from: scenarios A and B of the
\* design, a Sunday night, a refund, a category that differs in case only,
\* and the last day of a month that is also the last day of a week.
RecordPool ==
    { [amount |-> 10, category |-> food, timestamp |-> Text(2024, 1, 1, 0)],
      [amount |-> 20, category |-> food, timestamp |-> Text(2024, 1, 15, 43200)],
      [amount |-> 5,  category |-> food, timestamp |-> Text(2024, 3, 1, 86399)],
      [amount |-> -3, category |-> food, timestamp |-> Text(2024, 1, 7, 86399)],
      [amount |-> 7,  category |-> Food, timestamp |-> Text(2024, 2, 10, 3600)],
      [amount |-> 0,  category |-> Food, timestamp |-> Text(2024, 3, 31, 0)] }

\* The categories asked for: rent is carried by no record.
TrendCategories == {food, Food, rent}

RecordSets == ListsUpTo(RecordPool, MaxFrame)

TrendInit ==
    /\ stored_in \in {None} \cup {Some(l) : l \in RecordSets}
    /\ frame = FrameOf(stored_in)
    /\ results = <<>>
    /\ chart = None
    /\ AppInit

\* A call returns (or raises) and leaves the DataFrame object as it made it.
Called(category, freq, r) ==
    /\ results' = Append(results, [category |-> category, freq |-> freq,
                                   raised |-> r.raised, data |-> r.data])
    /\ frame' = r.frame

\* The first call of prepare_trend_data on the DataFrame object.
PrepareCall ==
    /\ ~IsNone(stored_in)
    /\ results = <<>>
    /\ chart = None
    /\ \E category \in TrendCategories, freq \in Frequencies :
          Called(category, freq, prepare_trend_data(frame, category, freq))
    /\ UNCHANGED <<stored_in, chart>>
    /\ UNCHANGED appVars

\* A further call with the same object, category and frequency.
PrepareAgain ==
    /\ results # <<>>
    /\ Len(results) < MaxCalls
    /\ Called(results[1].category, results[1].freq,
              prepare_trend_data(frame, results[1].category, results[1].freq))
    /\ UNCHANGED <<stored_in, chart>>
    /\ UNCHANGED appVars

Charted(selected, freq, r) ==
    chart' = Some([selected |-> selected, freq |-> freq,
                   raised |-> r.raised, figure |-> r.figure])

\* One call of update_trend_graph.
GraphCall ==
    /\ results = <<>>
    /\ chart = None
    /\ \E selected \in Selections(TrendCategories), freq \in Frequencies :
          Charted(selected, freq, update_trend_graph(selected, stored_in, freq))
    /\ UNCHANGED <<stored_in, frame, results>>
    /\ UNCHANGED appVars

TrendNext == PrepareCall \/ PrepareAgain \/ GraphCall

TrendSpec == TrendInit /\ [][TrendNext]_vars

\* ------------------------------------------------------------------------
\* Spec: the application.  Callbacks run one at a time, each to completion.
\* An exception that escapes a callback reaches Dash, which answers the
\* request with an error and updates no property.
\* ------------------------------------------------------------------------

\* most clicks counted on the sidebar toggle
MaxClicks == 1

\* n_clicks of a button of the page at a click: the callbacks tell None,
\* 0 and a positive count apart, and a click makes the count positive.
Clicked == Some(1)

Paths == {"/", "/spending-tracker", "/place-holder"}

RentHash1 == <<"R", "e", "n", "t", "#", "1">>

\* What the user may have typed into 'new_category_input'.
NameInputs == {None, Some(<<>>), Some(RentHash1), Some(food)}

\* What 'spending_amount' and 'spending_date' may hold at a click.
AmountInputs == {None, Some(10)}
DateInputs == {None, Some([y |-> 2024, m |-> 3, d |-> 1])}

\* The seconds of the day datetime.now() may read.
Clock == {43200}

OnPage == pathname = "/spending-tracker" /\ ~load_pending

\* layout(): the option lists of a freshly rendered spending tracker.
layout(table) ==
    [dropdown |-> Append(LabelValue(get_categories(table)), AddNewOption),
     monthly |-> LabelValue(get_categories(table)),
     weekly |-> LabelValue(get_categories(table))]

\* The browser goes to another path: render_page_content replaces the page.
\* A fresh spending tracker has no value selected, a closed modal and an
\* empty store, and its callbacks' initial calls (toggle_modal and the
\* chart callbacks on None, update_output on n_clicks None) change nothing.
Navigate ==
    /\ ~load_pending
    /\ \E p \in Paths \ {pathname} :
          /\ pathname' = p
          /\ category_options' = IF p = "/spending-tracker" THEN layout(categories).dropdown ELSE <<>>
          /\ monthly_options' = IF p = "/spending-tracker" THEN layout(categories).monthly ELSE <<>>
          /\ weekly_options' = IF p = "/spending-tracker" THEN layout(categories).weekly ELSE <<>>
    /\ load_pending' = TRUE
    /\ category_value' = None
    /\ is_open' = toggle_modal(None, FALSE)
    /\ spending_data_store' = None
    /\ response' = Response("render_page_content", None, "", NoUpdate, EmptyFigure)
    /\ UNCHANGED <<categories, spending, sidebar_clicks, sidebar_style>>
    /\ UNCHANGED trendVars

\* Dash writes what load_spending_data returned, unless it raised or
\* returned no_update.
Loaded(r) ==
    /\ spending_data_store' =
          IF r.raised = "" /\ ~IsNone(r.data) THEN r.data ELSE spending_data_store
    /\ response' = Response("load_spending_data", None, r.raised, NoUpdate, EmptyFigure)

\* load_spending_data, fired by the change of pathname.
LoadSpendingData ==
    /\ load_pending
    /\ \E fault \in {"none", "read"} :
          Loaded(load_spending_data(pathname, fault, spending))
    /\ load_pending' = FALSE
    /\ UNCHANGED <<categories, spending, pathname, category_options, monthly_options,
                   weekly_options, category_value, is_open, sidebar_clicks, sidebar_style>>
    /\ UNCHANGED trendVars

\* The user picks another value in 'category_dropdown' (or clears it).
SelectCategory ==
    /\ OnPage
    /\ \E v \in ({None} \cup {Some(x) : x \in Values(category_options)}) \ {category_value} :
          /\ category_value' = v
          /\ is_open' = toggle_modal(v, is_open)
    /\ response' = Response("toggle_modal", None, "", NoUpdate, EmptyFigure)
    /\ UNCHANGED <<categories, spending, pathname, load_pending, category_options,
                   monthly_options, weekly_options, spending_data_store,
                   sidebar_clicks, sidebar_style>>
    /\ UNCHANGED trendVars

\* Dash writes the option lists update_category_dropdown returned.
CategoryAnswered(new_category, r) ==
    /\ Len(r.table) <= MaxCategories
    /\ categories' = r.table
    /\ category_options' = IF IsNone(r.dropdown) THEN category_options ELSE Val(r.dropdown)
    /\ monthly_options' = IF IsNone(r.monthly) THEN monthly_options ELSE Val(r.monthly)
    /\ weekly_options' = IF IsNone(r.weekly) THEN weekly_options ELSE Val(r.weekly)
    /\ response' = Response("update_category_dropdown", new_category, r.raised, r.banner, EmptyFigure)

\* A click on 'add_new_category_button', the button of the open modal.
AddCategoryClick ==
    /\ OnPage
    /\ is_open
    /\ \E new_category \in NameInputs, fault \in {"none", "connect", "execute", "read"} :
          CategoryAnswered(new_category,
                           update_category_dropdown(Clicked, new_category, fault, categories))
    /\ UNCHANGED <<spending, pathname, load_pending, category_value, is_open,
                   spending_data_store, sidebar_clicks, sidebar_style>>
    /\ UNCHANGED trendVars

SubmitAnswered(amount, category, spending_date, r) ==
    /\ Len(r.table) <= MaxRecords
    /\ spending' = r.table
    /\ response' = Response("update_output",
                          [amount |-> amount, category |-> category,
                           spending_date |-> spending_date],
                          r.raised, r.banner, EmptyFigure)

\* A click on 'submit_button'.
SubmitClick ==
    /\ OnPage
    /\ \E amount \in AmountInputs, spending_date \in DateInputs, now \in Clock,
          fault \in {"none", "connect", "execute"} :
          SubmitAnswered(amount, category_value, spending_date,
                         update_output(Clicked, amount, category_value,
                                       spending_date, now, fault, spending))
    /\ UNCHANGED <<categories, pathname, load_pending, category_options, monthly_options,
                   weekly_options, category_value, is_open, spending_data_store,
                   sidebar_clicks, sidebar_style>>
    /\ UNCHANGED trendVars

ChartAnswered(callback, selected_categories, r) ==
    response' = Response(callback, selected_categories, r.raised, NoUpdate, r.figure)

\* The selection of 'monthly_trend_dropdown' changes.
UpdateMonthlyTrend ==
    /\ OnPage
    /\ \E selected_categories \in Selections(Values(monthly_options)) :
          ChartAnswered("update_monthly_trend", selected_categories,
                        update_trend_graph(selected_categories, spending_data_store, "M"))
    /\ UNCHANGED <<dbVars, pageVars, trendVars>>

\* The selection of 'weekly_trend_dropdown' changes.
UpdateWeeklyTrend ==
    /\ OnPage
    /\ \E selected_categories \in Selections(Values(weekly_options)) :
          ChartAnswered("update_weekly_trend", selected_categories,
                        update_trend_graph(selected_categories, spending_data_store, "W"))
    /\ UNCHANGED <<dbVars, pageVars, trendVars>>

\* A click on 'sidebar-toggle'.
ToggleSidebar ==
    /\ ~load_pending
    /\ (IF IsNone(sidebar_clicks) THEN 0 ELSE Val(sidebar_clicks)) < MaxClicks
    /\ sidebar_clicks' = Some((IF IsNone(sidebar_clicks) THEN 0 ELSE Val(sidebar_clicks)) + 1)
    /\ sidebar_style' = toggle_sidebar(sidebar_clicks')
    /\ response' = Response("toggle_sidebar", None, "", NoUpdate, EmptyFigure)
    /\ UNCHANGED <<categories, spending, pathname, load_pending, category_options,
                   monthly_options, weekly_options, category_value, is_open,
                   spending_data_store>>
    /\ UNCHANGED trendVars

Init ==
    /\ stored_in = None
    /\ frame = FrameOf(None)
    /\ results = <<>>
    /\ chart = None
    /\ AppInit

Next ==
    \/ Navigate
    \/ LoadSpendingData
    \/ SelectCategory
    \/ AddCategoryClick
    \/ SubmitClick
    \/ UpdateMonthlyTrend
    \/ UpdateWeeklyTrend
    \/ ToggleSidebar

Spec == Init /\ [][Next]_vars

\* ------------------------------------------------------------------------
\* Properties of the resampler and the chart builder (TrendSpec).  They are
\* stated on the records as they were handed in (stored_in, with their
\* text timestamps), not on the routine's intermediate frames.
\* ------------------------------------------------------------------------

\* Day p ends a period: the last day of a month, or a Sunday.
IsPeriodEnd(p, freq) ==
    IF freq = "M" THEN Calendar[p + 1].d = 1 ELSE p % 7 = 6

\* The text timestamp ts lies in the period that ends on day p.
InPeriod(ts, p, freq) ==
    IF freq = "M"
    THEN ts.y = Calendar[p].y /\ ts.m = Calendar[p].m
    ELSE ToOrdinal(ts.y, ts.m, ts.d) \in (p - 6)..p

\* Some record carries category c.
Carried(records, c) == \E i \in 1..Len(records) : records[i].category = c

\* A record of category c lies in the period that ends on day p.
Holds(records, c, p, freq) ==
    \E i \in 1..Len(records) :
        records[i].category = c /\ InPeriod(records[i].timestamp, p, freq)

\* The amounts of the records of category c in the period that ends on p.
RECURSIVE PeriodSum(_, _, _, _)
PeriodSum(records, c, p, freq) ==
    IF records = <<>> THEN 0
    ELSE (IF Head(records).category = c /\ InPeriod(Head(records).timestamp, p, freq)
          THEN Head(records).amount ELSE 0)
         + PeriodSum(Tail(records), c, p, freq)

\* The amounts of all the records of category c.
RECURSIVE CategorySum(_, _)
CategorySum(records, c) ==
    IF records = <<>> THEN 0
    ELSE (IF Head(records).category = c THEN Head(records).amount ELSE 0)
         + CategorySum(Tail(records), c)

\* Period q is the one right after period p.
Adjacent(p, q, freq) ==
    IF freq = "M"
    THEN IsPeriodEnd(q, freq) /\ Calendar[p + 1].y = Calendar[q].y
                              /\ Calendar[p + 1].m = Calendar[q].m
    ELSE q = p + 7

\* The series data is the gap-filled series of category c over records.
GapFilled(data, records, c, freq) ==
    /\ data # <<>>
    /\ \A k \in 1..Len(data) :
          /\ data[k].timestamp.sec = 0
          /\ IsPeriodEnd(data[k].timestamp.ord, freq)
          /\ data[k].amount = PeriodSum(records, c, data[k].timestamp.ord, freq)
          /\ data[k].category = c
    /\ \A k \in 1..(Len(data) - 1) :
          Adjacent(data[k].timestamp.ord, data[k + 1].timestamp.ord, freq)
    /\ Holds(records, c, data[1].timestamp.ord, freq)
    /\ Holds(records, c, data[Len(data)].timestamp.ord, freq)
    /\ \A i \in 1..Len(records) :
          records[i].category = c =>
              \E k \in 1..Len(data) :
                  InPeriod(records[i].timestamp, data[k].timestamp.ord, freq)

\* C1: whenever at least one record carries the category asked for,
\* prepare_trend_data returns, without raising, exactly one point per
\* period from the period of the earliest such record to the period of the
\* latest, in ascending order, none missing and none repeated; the amount
\* of a point is the sum of the category's records in its period, which is
\* 0 for a period that holds none.
C1_GapFilledSeries ==
    \A i \in 1..Len(results) :
        Carried(Val(stored_in), results[i].category) =>
            /\ results[i].raised = ""
            /\ GapFilled(results[i].data, Val(stored_in),
                         results[i].category, results[i].freq)

\* Scenario B with a record of another category in February: the monthly
\* series of food is January 10, February 0, March 5.
C1_Witness ==
    /\ results # <<>>
    /\ results[1].category = food
    /\ results[1].freq = "M"
    /\ Carried(Val(stored_in), Food)
    /\ Len(results[1].data) = 3
    /\ results[1].data[1].amount = 10
    /\ results[1].data[2].amount = 0
    /\ results[1].data[3].amount = 5

\* C2: for a category that no record carries (the empty record set
\* included), prepare_trend_data raises nothing and returns the empty
\* series.
C2_EmptySeriesForNoMatch ==
    \A i \in 1..Len(results) :
        ~Carried(Val(stored_in), results[i].category) =>
            results[i].raised = "" /\ results[i].data = <<>>

\* C3: the amounts of the points prepare_trend_data returns for a category
\* add up to the amounts of the records of exactly that category; the
\* records of the other categories contribute nothing.
C3_SumConserved ==
    \A i \in 1..Len(results) :
        results[i].raised = "" =>
            SumAmount(results[i].data) = CategorySum(Val(stored_in), results[i].category)

\* A series of food that adds up to 20 - 3 beside a record of Food.
C3_Witness ==
    /\ results # <<>>
    /\ results[1].raised = ""
    /\ results[1].category = food
    /\ Carried(Val(stored_in), Food)
    /\ Len(results[1].data) > 1
    /\ SumAmount(results[1].data) = 17

\* C10: update_trend_graph raises nothing and returns a chart with no
\* series whenever the record set is None or the list of selected
\* categories is None or empty, for either frequency.
C10_EmptyChart ==
    (~IsNone(chart) /\ (IsNone(stored_in) \/ Falsy(Val(chart).selected))) =>
        Val(chart).raised = "" /\ Val(chart).figure.data = <<>>

\* A category is selected and there is no record set.
C10_Witness ==
    /\ ~IsNone(chart)
    /\ IsNone(stored_in)
    /\ Val(chart).selected = Some(<<food>>)
    /\ Val(chart).figure = EmptyFigure

\* The points of one series of a chart, as rows of a Resampler output.
SeriesRows(trace) ==
    [i \in 1..Len(trace.x) |->
        [timestamp |-> trace.x[i], amount |-> trace.y[i], category |-> trace.name]]

\* The series is the one of category c over records: its gap-filled
\* series, or the empty series when no record carries c.
SeriesOf(trace, records, c, freq) ==
    /\ trace.name = c
    /\ Len(trace.x) = Len(trace.y)
    /\ IF Carried(records, c)
       THEN GapFilled(SeriesRows(trace), records, c, freq)
       ELSE trace.x = <<>>

\* C11: for a present record set and a non-empty list of selected
\* categories, update_trend_graph raises nothing and returns a chart with
\* exactly one series per list entry, in list order (a repeated category
\* gives a repeated series), each named after its category and holding that
\* category's series, which is empty for a category no record carries.
C11_OneSeriesPerEntry ==
    (~IsNone(chart) /\ ~IsNone(stored_in) /\ ~Falsy(Val(chart).selected))
    => /\ Val(chart).raised = ""
       /\ Len(Val(chart).figure.data) = Len(Val(Val(chart).selected))
       /\ \A k \in 1..Len(Val(Val(chart).selected)) :
              SeriesOf(Val(chart).figure.data[k], Val(stored_in),
                       Val(Val(chart).selected)[k], Val(chart).freq)

\* C12: prepare_trend_data has no side effect: after a call the record set
\* that was passed in is what it was before the call, with the same rows,
\* the same column values and the same value types.
C12_NoSideEffect ==
    results # <<>> => frame = FrameOf(stored_in)

\* C13: successive calls of prepare_trend_data with the same DataFrame
\* object, category and frequency end alike: every later call raises what
\* the first raised and returns the series the first returned.
C13_SameOutputAgain ==
    \A i \in 1..Len(results) :
        /\ results[i].raised = results[1].raised
        /\ results[i].data = results[1].data

\* A second call returned the three weekly points of the first, on a
\* DataFrame whose timestamp column the first call had converted.
C13_Witness ==
    /\ Len(results) = 2
    /\ results[2].raised = ""
    /\ results[2].freq = "W"
    /\ Len(results[2].data) = 3
    /\ results[2].data[2].amount = 0
    /\ frame # FrameOf(stored_in)

\* ------------------------------------------------------------------------
\* Properties of the application (Spec).  `response` is what the callback
\* that ran last was called with and handed back, so a step into a state
\* whose response is a callback's is a run of that callback (or a step
\* that changes nothing).
\* ------------------------------------------------------------------------

\* The callbacks of the spending tracker that can meet a failure.
Handlers ==
    {"update_category_dropdown", "update_output", "load_spending_data",
     "update_monthly_trend", "update_weekly_trend"}

ChartCallbacks == {"update_monthly_trend", "update_weekly_trend"}

IsBanner(banner, color) == banner.kind = "Alert" /\ banner.color = color

\* C4: no exception escapes an interaction handler (add category, submit,
\* load spending data, chart update): every failure met while it runs is
\* caught inside it.
C4_NoExceptionEscapes ==
    response.callback \in Handlers => response.raised = ""

\* C5: a submit click with no amount or no category raises no exception
\* and returns a banner of warning severity, whatever the date field
\* holds, an absent date included.
C5_MissingInputWarns ==
    (/\ response.callback = "update_output"
     /\ (IsNone(response.input.amount) \/ IsNone(response.input.category)))
    => (response.raised = "" /\ IsBanner(response.banner, "warning"))

\* The name has a character that is neither a letter nor a digit.
HasOtherCharacter(name) == \E i \in 1..Len(name) : name[i] \notin AlnumChars

OptionsUnchanged ==
    /\ category_options' = category_options
    /\ monthly_options' = monthly_options
    /\ weekly_options' = weekly_options

\* C6: an add-category click with a non-empty name that has a
\* non-alphanumeric character leaves the categories table and the three
\* option lists as they were, raises nothing and returns a warning banner.
C6_InvalidNameRefused ==
    [][(/\ response'.callback = "update_category_dropdown"
        /\ ~Falsy(response'.input)
        /\ HasOtherCharacter(Val(response'.input)))
       => (/\ categories' = categories
           /\ OptionsUnchanged
           /\ response'.raised = ""
           /\ IsBanner(response'.banner, "warning"))]_vars

\* "Rent#1" was refused while the table held a category.
C6_Witness ==
    /\ response.callback = "update_category_dropdown"
    /\ response.input = Some(RentHash1)
    /\ IsBanner(response.banner, "warning")
    /\ categories = <<food>>
    /\ Values(monthly_options) = {food}

AppendedOne ==
    /\ response'.callback = "update_output"
    /\ response'.raised = ""
    /\ IsBanner(response'.banner, "success")
    /\ Len(spending') = Len(spending) + 1
    /\ SubSeq(spending', 1, Len(spending)) = spending
    /\ \A i \in 1..Len(spending) : spending[i].id # spending'[Len(spending')].id
    /\ spending'[Len(spending')].amount = Val(response'.input.amount)
    /\ spending'[Len(spending')].category = Val(response'.input.category)

\* C8: the spending table is append-only.  Every step leaves every record
\* of the table in place with its id, amount, category and timestamp;
\* only a successful submit changes the table, and it adds exactly one
\* record, under an id of its own.
C8_AppendOnly == [][spending' = spending \/ AppendedOne]_vars

\* A second record was appended behind the first.
C8_Witness ==
    /\ Len(spending) = 2
    /\ spending[1].id = 1
    /\ spending[2].id = 2
    /\ response.callback = "update_output"
    /\ IsBanner(response.banner, "success")

RECURSIVE SumOf(_)
SumOf(numbers) == IF numbers = <<>> THEN 0 ELSE Head(numbers) + SumOf(Tail(numbers))

\* C9: a chart that was rendered on a page that has loaded its records
\* shows, for every selected category, the records of that category that
\* are in the spending table at the moment of the render, the ones
\* appended since the last navigation included: it has one series per
\* selected category, whose amounts add up to the amounts of those records.
C9_ChartOfCurrentRecords ==
    (/\ response.callback \in ChartCallbacks
     /\ response.raised = ""
     /\ ~IsNone(spending_data_store)
     /\ ~Falsy(response.input))
    => /\ Len(response.figure.data) = Len(Val(response.input))
       /\ \A k \in 1..Len(Val(response.input)) :
              SumOf(response.figure.data[k].y)
                  = CategorySum(spending, Val(response.input)[k])

\* C14: no handler closes the add-category modal.  Selecting a value that
\* contains "ADD_NEW" in the category dropdown leaves it open, and on a
\* page that stays in place (no navigation renders a new one) a modal that
\* is open stays open through every dropdown change, add-category click,
\* submit, chart selection and sidebar toggle.
C14_ModalStaysOpen ==
    [][/\ (/\ response'.callback = "toggle_modal"
            /\ ~Falsy(category_value')
            /\ Contains(Val(category_value'), ADD_NEW)) => is_open'
       /\ (is_open /\ response'.callback # "render_page_content") => is_open']_vars

\* The modal is still open after another category was selected and after
\* an add-category click.
C14_Witness ==
    /\ is_open
    /\ category_value = Some(food)
    /\ response.callback = "update_category_dropdown"
    /\ response.input = Some(RentHash1)

====
